---- MODULE Spec2Model ----
(***************************************************************************)
(* GAA Stats: the match-event ledger (MatchEventViewSet), the match        *)
(* lifecycle (MatchViewSet), the statistics endpoints (StatsViewSet) and   *)
(* the WebSocket fan-out (MatchConsumer, broadcast_to_match).              *)
(*                                                                         *)
(* A database row is a record; a table is a sequence indexed by the        *)
(* auto-increment primary key, and `deleted` holds the keys of the rows     *)
(* that were removed.  Every request handler is one action that leaves its *)
(* HTTP status (or WebSocket close code) in `last`; the undo handler is     *)
(* also given statement by statement, for requests that run concurrently.  *)
(* `inbox` holds what a consumer has sent to its client, `channel` what the *)
(* channel layer holds for a consumer that has not handled it yet.         *)
(* The wall-clock columns (timestamp, created_at, updated_at) are not      *)
(* modelled.                                                               *)
(***************************************************************************)
EXTENDS Integers, Sequences, FiniteSets, TLC

(* ------------------------------ bounds -------------------------------- *)
\* rows of the match_event table
MaxEvents == 3
\* messages kept per WebSocket connection
MaxInbox == 2
\* the length of the slice of events in a match-state snapshot (50 in get_match_state)
RecentLimit == 2

(* --------------------------- fixed test data -------------------------- *)
Clubs == {"A", "B"}
\* match 1 is owned by club A, match 2 by club B
Matches == {1, 2}
\* a primary key no Match row has
MissingMatch == 9
Players == {"p1", "p2"}
NoPlayer == "none"
\* the NULL of MatchEvent.corrected_event
NoEvent == 0
\* ua: admin of A, va: viewer of A, ub: admin of B,
\* np: authenticated user without a UserProfile, anon: not authenticated
Users == {"ua", "va", "ub", "np", "anon"}
Conns == {"c1", "c2"}

\* Match.club
MatchClub(m) == IF m = 1 THEN "A" ELSE "B"
\* the club a Player row is created for
HomeClub(p) == IF p = "p1" THEN "A" ELSE "B"
\* HTTP requests in flight at the same time
Reqs == {"r1", "r2"}
\* every caller taken as authenticated
is_authenticated_m(u) == TRUE

\* request.user.is_authenticated
is_authenticated(u) == u # "anon"
\* hasattr(request.user, 'userprofile')
has_userprofile(u) == u \in {"ua", "va", "ub"}
\* request.user.userprofile.club
UserClub(u) == IF u = "ub" THEN "B" ELSE "A"
\* request.user.userprofile.role
UserRole(u) == IF u = "va" THEN "viewer" ELSE "admin"

\* Match.STATUS_CHOICES
STATUS_CHOICES == {"scheduled", "in_progress", "completed", "postponed", "cancelled"}
\* Match.ENTRY_MODE_CHOICES
ENTRY_MODE_CHOICES == {"live", "post_match"}
\* the event kinds of MatchEvent.EVENT_TYPE_CHOICES the model enumerates
EVENT_TYPES == {"score_goal", "score_1point", "score_2point", "tackle_won", "kickout_won"}
\* MatchEventSerializer.validate: player_required_events (restricted to EVENT_TYPES)
player_required_events == {"score_goal", "score_1point", "score_2point", "tackle_won"}

VARIABLES match, events, last, conn, group, inbox, players, deleted, req, channel

vars == <<match, events, last, conn, group, inbox, players, deleted, req, channel>>

fanoutVars == <<conn, group, inbox, channel>>

\* Player.club
PlayerClub(p) == players[p].club

(* ------------------------------- helpers ------------------------------ *)
\* what a request leaves behind: the handler, the HTTP status, the error it
\* reports, the primary key the request named, the row it answers with and
\* the player the request named
Response(op, code, error, ref, id, player) ==
    [op |-> op, code |-> code, error |-> error, ref |-> ref, id |-> id, player |-> player]

\* MatchEvent.objects.all(): the rows inserted and not deleted
EventIds == DOMAIN events \ deleted

\* MatchEventViewSet.get_queryset: the events of the caller's club's matches
get_queryset(u) ==
    IF ~has_userprofile(u) THEN {}
    ELSE {i \in EventIds : match[events[i].match].club = UserClub(u)}

\* MatchViewSet.get_queryset: the matches of the caller's club
match_get_queryset(u) ==
    IF ~has_userprofile(u) THEN {}
    ELSE {m \in Matches : match[m].club = UserClub(u)}

\* the player requirement left out
validate_m(event_type, player) == TRUE

\* MatchEventSerializer.validate
validate(event_type, player) ==
    ~(event_type \in player_required_events /\ player = NoPlayer)

\* the ownership check left out
player_club_ok_m(m, player) == TRUE

\* perform_create: the player ownership check
player_club_ok(m, player) ==
    ~(player # NoPlayer /\ PlayerClub(player) # match[m].club)

\* the lifecycle check left out
status_ok_m(m) == TRUE

\* perform_create: the lifecycle check
status_ok(m) == match[m].status = "in_progress"

\* the double-undo check left out
already_undone_m(e) == FALSE

\* undo: "event hasn't been undone already"
already_undone(e) == events[e].corrected_event # NoEvent

\* a copy that loses the minute and the payload of the original
corrected_copy_m(e) ==
    [match |-> events[e].match,
     player |-> events[e].player,
     event_type |-> events[e].event_type,
     minute |-> 0,
     corrected_event |-> e,
     data |-> "d0"]

\* undo: the row MatchEvent.objects.create(...) inserts for original event e
corrected_copy(e) ==
    [match |-> events[e].match,
     player |-> events[e].player,
     event_type |-> events[e].event_type,
     minute |-> events[e].minute,
     corrected_event |-> e,
     data |-> events[e].data]

\* a request that is not running undo
NoRow ==
    [match |-> 0, player |-> NoPlayer, event_type |-> "none", minute |-> 0,
     corrected_event |-> NoEvent, data |-> "none"]

idle == [pc |-> "idle", pk |-> 0, original_event |-> NoRow, corrected_event |-> NoEvent]

(* ------------------------------- Init --------------------------------- *)
\* Match rows as created: status and the score columns at their defaults,
\* entry_mode as the creator chose it (match 2 is a live-entry match)
Init ==
    /\ match \in {f \in [Matches -> [club : Clubs, status : {"scheduled"},
                                     entry_mode : ENTRY_MODE_CHOICES,
                                     club_goals : {0}, club_1point : {0}, club_2point : {0}]] :
                    /\ \A m \in Matches : f[m].club = MatchClub(m)
                    /\ f[2].entry_mode = "live"}
    /\ events = << >>
    /\ last = Response("none", 0, "none", 0, 0, NoPlayer)
    /\ conn = [c \in Conns |-> [state |-> "connecting", user |-> "anon", match |-> 0, code |-> 0]]
    /\ group = [m \in Matches |-> {}]
    /\ inbox = [c \in Conns |-> << >>]
    /\ players = [p \in Players |-> [club |-> HomeClub(p)]]
    /\ deleted = {}
    /\ req = [r \in Reqs |-> idle]
    /\ channel = [c \in Conns |-> << >>]

(* --------------------------- MatchEventViewSet ------------------------ *)
\* POST /match-events/ : permission, serializer validation, perform_create
perform_create(u, m, player, event_type, minute, data) ==
    /\ UNCHANGED <<match, fanoutVars, players, deleted, req>>
    /\ IF ~is_authenticated(u)
       THEN /\ last' = Response("create", 403, "not_authenticated", m, 0, player)
            /\ UNCHANGED events
       ELSE IF player # NoPlayer /\ player \notin DOMAIN players
       THEN /\ last' = Response("create", 400, "player_invalid", m, 0, player)
            /\ UNCHANGED events
       ELSE IF ~validate(event_type, player)
       THEN /\ last' = Response("create", 400, "player_required", m, 0, player)
            /\ UNCHANGED events
       ELSE IF ~player_club_ok(m, player)
       THEN /\ last' = Response("create", 400, "player_club", m, 0, player)
            /\ UNCHANGED events
       ELSE IF ~status_ok(m)
       THEN /\ last' = Response("create", 400, "not_in_progress", m, 0, player)
            /\ UNCHANGED events
       ELSE /\ Len(events) < MaxEvents
            /\ events' = Append(events, [match |-> m, player |-> player,
                                          event_type |-> event_type, minute |-> minute,
                                          corrected_event |-> NoEvent, data |-> data])
            /\ last' = Response("create", 201, "none", m, Len(events) + 1, player)

\* POST /match-events/<pk>/undo/
undo(u, pk) ==
    /\ UNCHANGED <<match, fanoutVars, players, deleted, req>>
    /\ IF ~is_authenticated(u)
       THEN /\ last' = Response("undo", 403, "not_authenticated", pk, 0, NoPlayer)
            /\ UNCHANGED events
       ELSE IF pk \notin get_queryset(u)
       THEN /\ last' = Response("undo", 404, "not_found", pk, 0, NoPlayer)
            /\ UNCHANGED events
       ELSE IF already_undone(pk)
       THEN /\ last' = Response("undo", 400, "already_undone", pk, 0, NoPlayer)
            /\ UNCHANGED events
       ELSE /\ Len(events) < MaxEvents
            /\ events' = [Append(events, corrected_copy(pk))
                            EXCEPT ![pk].corrected_event = Len(events) + 1]
            /\ last' = Response("undo", 200, "none", pk, Len(events) + 1, NoPlayer)

\* on_delete=SET_NULL of MatchEvent.corrected_event: the table once the rows
\* in gone are deleted
set_null(gone) ==
    [i \in DOMAIN events |->
        IF events[i].corrected_event \in gone
        THEN [events[i] EXCEPT !.corrected_event = NoEvent]
        ELSE events[i]]

\* PATCH /match-events/<pk>/ {field: value} : ModelViewSet.partial_update.
\* MatchEventSerializer.validate sees only the fields the request carries.
partial_update(u, pk, field, value) ==
    /\ UNCHANGED <<match, fanoutVars, players, deleted, req>>
    /\ IF ~is_authenticated(u)
       THEN /\ last' = Response("partial_update", 403, "not_authenticated", pk, 0, NoPlayer)
            /\ UNCHANGED events
       ELSE IF pk \notin get_queryset(u)
       THEN /\ last' = Response("partial_update", 404, "not_found", pk, 0, NoPlayer)
            /\ UNCHANGED events
       ELSE IF field = "event_type" /\ ~validate(value, NoPlayer)
       THEN /\ last' = Response("partial_update", 400, "player_required", pk, 0, NoPlayer)
            /\ UNCHANGED events
       ELSE IF field = "corrected_event" /\ value # NoEvent /\ value \notin EventIds
       THEN /\ last' = Response("partial_update", 400, "event_invalid", pk, 0, NoPlayer)
            /\ UNCHANGED events
       ELSE /\ events' = [events EXCEPT ![pk][field] = value]
            /\ last' = Response("partial_update", 200, "none", pk, pk, NoPlayer)

\* DELETE /match-events/<pk>/ : ModelViewSet.destroy
destroy(u, pk) ==
    /\ UNCHANGED <<match, fanoutVars, players, req>>
    /\ IF ~is_authenticated(u)
       THEN /\ last' = Response("destroy", 403, "not_authenticated", pk, 0, NoPlayer)
            /\ UNCHANGED <<events, deleted>>
       ELSE IF pk \notin get_queryset(u)
       THEN /\ last' = Response("destroy", 404, "not_found", pk, 0, NoPlayer)
            /\ UNCHANGED <<events, deleted>>
       ELSE /\ events' = set_null({pk})
            /\ deleted' = deleted \cup {pk}
            /\ last' = Response("destroy", 204, "none", pk, 0, NoPlayer)

(* -------------------- undo, statement by statement -------------------- *)
\* original_event = self.get_object(); if original_event.corrected_event: ...
undo_get_object(r, u, pk) ==
    /\ req[r].pc = "idle"
    /\ UNCHANGED <<match, events, fanoutVars, players, deleted>>
    /\ IF ~is_authenticated(u)
       THEN /\ last' = Response("undo", 403, "not_authenticated", pk, 0, NoPlayer)
            /\ UNCHANGED req
       ELSE IF pk \notin get_queryset(u)
       THEN /\ last' = Response("undo", 404, "not_found", pk, 0, NoPlayer)
            /\ UNCHANGED req
       ELSE IF already_undone(pk)
       THEN /\ last' = Response("undo", 400, "already_undone", pk, 0, NoPlayer)
            /\ UNCHANGED req
       ELSE /\ req' = [req EXCEPT ![r] = [pc |-> "checked", pk |-> pk,
                                          original_event |-> events[pk],
                                          corrected_event |-> NoEvent]]
            /\ UNCHANGED last

\* corrected_event = MatchEvent.objects.create(..., corrected_event=original_event, ...)
undo_create(r) ==
    /\ req[r].pc = "checked"
    /\ Len(events) < MaxEvents
    /\ UNCHANGED <<match, last, fanoutVars, players, deleted>>
    /\ events' = Append(events, [req[r].original_event EXCEPT !.corrected_event = req[r].pk])
    /\ req' = [req EXCEPT ![r].pc = "created", ![r].corrected_event = Len(events) + 1]

\* original_event.corrected_event = corrected_event; original_event.save();
\* return Response(...).  save() writes every column of the instance the
\* request read, and inserts the row again when it is gone.
undo_save(r) ==
    /\ req[r].pc = "created"
    /\ UNCHANGED <<match, fanoutVars, players>>
    /\ events' = [events EXCEPT ![req[r].pk] =
                     [req[r].original_event EXCEPT !.corrected_event = req[r].corrected_event]]
    /\ deleted' = deleted \ {req[r].pk}
    /\ last' = Response("undo", 200, "none", req[r].pk, req[r].corrected_event, NoPlayer)
    /\ req' = [req EXCEPT ![r] = idle]

(* ------------------------------ PlayerViewSet ------------------------- *)
\* PlayerViewSet.get_queryset: the players of the caller's club
player_get_queryset(u) ==
    IF ~has_userprofile(u) THEN {}
    ELSE {p \in DOMAIN players : players[p].club = UserClub(u)}

\* PATCH /players/<p>/ {club: club} : update, perform_update.  A viewer's
\* perform_update returns without saving; the view still answers 200.
player_perform_update(u, p, club) ==
    /\ UNCHANGED <<match, events, fanoutVars, deleted, req>>
    /\ IF ~is_authenticated(u)
       THEN /\ last' = Response("player_update", 403, "not_authenticated", 0, 0, p)
            /\ UNCHANGED players
       ELSE IF p \notin player_get_queryset(u)
       THEN /\ last' = Response("player_update", 404, "not_found", 0, 0, p)
            /\ UNCHANGED players
       ELSE IF UserRole(u) = "viewer"
       THEN /\ last' = Response("player_update", 200, "not_saved", 0, 0, p)
            /\ UNCHANGED players
       ELSE /\ players' = [players EXCEPT ![p].club = club]
            /\ last' = Response("player_update", 200, "none", 0, 0, p)

\* on_delete=CASCADE of MatchEvent.player: the events that go with player p
cascade(p) == {i \in EventIds : events[i].player = p}

\* DELETE /players/<p>/ : destroy
player_destroy(u, p) ==
    /\ UNCHANGED <<match, fanoutVars, req>>
    /\ IF ~is_authenticated(u)
       THEN /\ last' = Response("player_destroy", 403, "not_authenticated", 0, 0, p)
            /\ UNCHANGED <<events, players, deleted>>
       ELSE IF ~has_userprofile(u)
       THEN /\ last' = Response("player_destroy", 500, "no_userprofile", 0, 0, p)
            /\ UNCHANGED <<events, players, deleted>>
       ELSE IF UserRole(u) = "viewer"
       THEN /\ last' = Response("player_destroy", 403, "insufficient_permissions", 0, 0, p)
            /\ UNCHANGED <<events, players, deleted>>
       ELSE IF p \notin player_get_queryset(u)
       THEN /\ last' = Response("player_destroy", 404, "not_found", 0, 0, p)
            /\ UNCHANGED <<events, players, deleted>>
       ELSE /\ players' = [q \in DOMAIN players \ {p} |-> players[q]]
            /\ events' = set_null(cascade(p))
            /\ deleted' = deleted \cup cascade(p)
            /\ last' = Response("player_destroy", 204, "none", 0, 0, p)

(* ------------------------------ MatchViewSet -------------------------- *)
\* POST /matches/<pk>/start_match/
start_match(u, pk) ==
    /\ UNCHANGED <<events, fanoutVars, players, deleted, req>>
    /\ IF ~is_authenticated(u)
       THEN /\ last' = Response("start_match", 403, "not_authenticated", pk, 0, NoPlayer)
            /\ UNCHANGED match
       ELSE IF pk \notin match_get_queryset(u)
       THEN /\ last' = Response("start_match", 404, "not_found", pk, 0, NoPlayer)
            /\ UNCHANGED match
       ELSE /\ match' = [match EXCEPT ![pk].status = "in_progress"]
            /\ last' = Response("start_match", 200, "none", pk, pk, NoPlayer)

\* POST /matches/<pk>/complete_match/
complete_match(u, pk) ==
    /\ UNCHANGED <<events, fanoutVars, players, deleted, req>>
    /\ IF ~is_authenticated(u)
       THEN /\ last' = Response("complete_match", 403, "not_authenticated", pk, 0, NoPlayer)
            /\ UNCHANGED match
       ELSE IF pk \notin match_get_queryset(u)
       THEN /\ last' = Response("complete_match", 404, "not_found", pk, 0, NoPlayer)
            /\ UNCHANGED match
       ELSE /\ match' = [match EXCEPT ![pk].status = "completed"]
            /\ last' = Response("complete_match", 200, "none", pk, pk, NoPlayer)

\* PATCH /matches/<pk>/ {status: s} : update, perform_update.  A viewer's
\* perform_update returns without saving; the view still answers 200.
perform_update(u, pk, s) ==
    /\ UNCHANGED <<events, fanoutVars, players, deleted, req>>
    /\ IF ~is_authenticated(u)
       THEN /\ last' = Response("update", 403, "not_authenticated", pk, 0, NoPlayer)
            /\ UNCHANGED match
       ELSE IF pk \notin match_get_queryset(u)
       THEN /\ last' = Response("update", 404, "not_found", pk, 0, NoPlayer)
            /\ UNCHANGED match
       ELSE IF UserRole(u) = "viewer"
       THEN /\ last' = Response("update", 200, "not_saved", pk, 0, NoPlayer)
            /\ UNCHANGED match
       ELSE /\ match' = [match EXCEPT ![pk].status = s]
            /\ last' = Response("update", 200, "none", pk, pk, NoPlayer)

(* ------------------------------ MatchConsumer ------------------------- *)
\* MatchConsumer.get_match / get_user_profile: either lookup raises
lookup_fails(u, match_id) == match_id \notin Matches \/ ~has_userprofile(u)

\* the club comparison left out
club_mismatch_m(u, match_id) == FALSE

\* connect: match.club.id != user_profile.club.id
club_mismatch(u, match_id) == match[match_id].club # UserClub(u)

\* a WebSocket handshake for /ws/match/<match_id>/ by user u on connection c
connect(c, u, match_id) ==
    /\ conn[c].state = "connecting"
    /\ UNCHANGED <<match, events, last, inbox, players, deleted, req, channel>>
    /\ IF ~is_authenticated(u)
       THEN /\ conn' = [conn EXCEPT ![c] = [state |-> "closed", user |-> u,
                                            match |-> match_id, code |-> 4001]]
            /\ UNCHANGED group
       ELSE IF lookup_fails(u, match_id)
       THEN /\ conn' = [conn EXCEPT ![c] = [state |-> "closed", user |-> u,
                                            match |-> match_id, code |-> 4004]]
            /\ UNCHANGED group
       ELSE IF club_mismatch(u, match_id)
       THEN /\ conn' = [conn EXCEPT ![c] = [state |-> "closed", user |-> u,
                                            match |-> match_id, code |-> 4003]]
            /\ UNCHANGED group
       ELSE /\ group' = [group EXCEPT ![match_id] = @ \cup {c}]
            /\ conn' = [conn EXCEPT ![c] = [state |-> "subscribed", user |-> u,
                                            match |-> match_id, code |-> 0]]

\* the group_discard left out
disconnect_m(c) ==
    /\ conn[c].state = "subscribed"
    /\ UNCHANGED <<match, events, last, inbox, players, deleted, req, channel, group>>
    /\ conn' = [conn EXCEPT ![c].state = "closed", ![c].code = 1000]

\* the socket of a subscribed connection goes away with close code 1000
disconnect(c) ==
    /\ conn[c].state = "subscribed"
    /\ UNCHANGED <<match, events, last, inbox, players, deleted, req, channel>>
    /\ group' = [group EXCEPT ![conn[c].match] = @ \ {c}]
    /\ conn' = [conn EXCEPT ![c].state = "closed", ![c].code = 1000]

\* the message handed to every connection, member of the group or not
group_send_m(match_id, event_type) ==
    [c \in Conns |-> Append(inbox[c], [type |-> event_type, match |-> match_id])]

\* channel_layer.group_send and the consumers' handlers (match_update,
\* event_created, ...): every member of the group sends the message on
group_send(match_id, event_type) ==
    [c \in Conns |-> IF c \in group[match_id]
                     THEN Append(inbox[c], [type |-> event_type, match |-> match_id])
                     ELSE inbox[c]]

\* broadcast_to_match(match_id, event_type, data)
broadcast_to_match(match_id, event_type) ==
    /\ \A c \in group[match_id] : Len(inbox[c]) < MaxInbox
    /\ inbox' = group_send(match_id, event_type)
    /\ UNCHANGED <<match, events, last, conn, group, players, deleted, req, channel>>

(* ---------------- fan-out, one consumer at a time ---------------------- *)
\* broadcast_to_match: channel_layer.group_send puts the message on the
\* channel of every member of the group and returns
publish(match_id, event_type) ==
    /\ \A c \in group[match_id] : Len(inbox[c]) + Len(channel[c]) < MaxInbox
    /\ channel' = [c \in Conns |->
                     IF c \in group[match_id]
                     THEN Append(channel[c], [type |-> event_type, match |-> match_id])
                     ELSE channel[c]]
    /\ UNCHANGED <<match, events, last, conn, group, inbox, players, deleted, req>>

\* a consumer that handles a message only when no other consumer has one waiting
handler_m(c) ==
    /\ conn[c].state = "subscribed"
    /\ channel[c] # << >>
    /\ \A d \in Conns \ {c} : channel[d] = << >>
    /\ inbox' = [inbox EXCEPT ![c] = Append(@, Head(channel[c]))]
    /\ channel' = [channel EXCEPT ![c] = Tail(@)]
    /\ UNCHANGED <<match, events, last, conn, group, players, deleted, req>>

\* match_update / score_update / event_created / player_subbed: the consumer
\* of connection c takes the next message of its channel and sends it on
handler(c) ==
    /\ conn[c].state = "subscribed"
    /\ channel[c] # << >>
    /\ inbox' = [inbox EXCEPT ![c] = Append(@, Head(channel[c]))]
    /\ channel' = [channel EXCEPT ![c] = Tail(@)]
    /\ UNCHANGED <<match, events, last, conn, group, players, deleted, req>>

(* ------------------------- MatchConsumer.get_match_state -------------- *)
\* MatchEvent.Meta.ordering = ['timestamp', 'minute'], ascending: the keys in
\* S, oldest first (the timestamp of an event grows with its primary key)
RECURSIVE ordering(_)
ordering(S) ==
    IF S = {} THEN << >>
    ELSE LET i == CHOOSE x \in S : \A y \in S : x <= y
         IN  <<i>> \o ordering(S \ {i})

\* queryset[:n]
slice(s, n) == SubSeq(s, 1, IF Len(s) < n THEN Len(s) ELSE n)

\* Match.total_club_score
total_club_score(m) ==
    (match[m].club_goals * 3) + match[m].club_1point + match[m].club_2point

\* get_match_state: the answer to a client's request_match_state
get_match_state(match_id) ==
    [match_id |-> match_id,
     status |-> match[match_id].status,
     score |-> [goals |-> match[match_id].club_goals,
                point_1 |-> match[match_id].club_1point,
                point_2 |-> match[match_id].club_2point,
                total |-> total_club_score(match_id)],
     recent_events |->
         slice(ordering({i \in EventIds : events[i].match = match_id}), RecentLimit)]

(* ------------------------------ StatsViewSet -------------------------- *)
\* QuerySet.filter(event_type=k).count()
count(S, k) == Cardinality({i \in S : events[i].event_type = k})

\* match_summary: MatchEvent.objects.filter(match=match)
match_events(m) == {i \in EventIds : events[i].match = m}

\* match_summary: events.filter(player__club=match.club)
home_events(m) ==
    {i \in match_events(m) :
        events[i].player # NoPlayer /\ PlayerClub(events[i].player) = match[m].club}

\* the 2-point scores not doubled, as in Match.total_club_score
club_score_m(goals, point_1, point_2) == (goals * 3) + point_1 + point_2

\* match_summary: club_score = (goals * 3) + point_1 + (point_2 * 2)
club_score(goals, point_1, point_2) == (goals * 3) + point_1 + (point_2 * 2)

\* GET /stats/match_summary/?match_id=m
match_summary(u, m) ==
    IF ~has_userprofile(u) \/ m \notin Matches \/ match[m].club # UserClub(u)
    THEN [code |-> 404]
    ELSE [code |-> 200,
          goals |-> count(home_events(m), "score_goal"),
          point_1 |-> count(home_events(m), "score_1point"),
          point_2 |-> count(home_events(m), "score_2point"),
          total |-> club_score(count(home_events(m), "score_goal"),
                               count(home_events(m), "score_1point"),
                               count(home_events(m), "score_2point")),
          kickouts_won |-> count(home_events(m), "kickout_won")]

\* player_summary: MatchEvent.objects.filter(player=player), then
\* .filter(match_id=match_id) when the query names a match (0: it does not)
player_events(p, match_id) ==
    {i \in EventIds : events[i].player = p /\ (match_id = 0 \/ events[i].match = match_id)}

\* GET /stats/player_summary/?player_id=p&match_id=match_id
player_summary(u, p, match_id) ==
    IF ~has_userprofile(u) \/ p \notin DOMAIN players \/ PlayerClub(p) # UserClub(u)
    THEN [code |-> 404]
    ELSE [code |-> 200,
          goals |-> count(player_events(p, match_id), "score_goal"),
          point_1 |-> count(player_events(p, match_id), "score_1point"),
          point_2 |-> count(player_events(p, match_id), "score_2point"),
          total_score |-> (count(player_events(p, match_id), "score_goal") * 3)
                          + count(player_events(p, match_id), "score_1point")
                          + (count(player_events(p, match_id), "score_2point") * 2),
          tackles_won |-> count(player_events(p, match_id), "tackle_won")]

(* ------------------------------ season report ------------------------ *)
\* generate_season_report_excel: Match.objects.filter(club=club)
season_matches(club) == {m \in Matches : match[m].club = club}

\* generate_season_report_excel: the events the loop over the matches reads
season_events(club) == {i \in EventIds : events[i].match \in season_matches(club)}

\* generate_season_report_excel: the events the player statistics count,
\* MatchEvent.objects.filter(match__club=club) without the rows that name no player
season_player_events(club) ==
    {i \in EventIds : match[events[i].match].club = club /\ events[i].player # NoPlayer}

\* generate_season_report_excel: total_score
season_total_score(goals, point_1, point_2) == (goals * 3) + point_1 + point_2

(* ------------------------------ match report -------------------------- *)
\* generate_match_report_pdf: total_score
report_total_score(goals, point_1, point_2) == (goals * 3) + point_1 + point_2

\* generate_match_report_pdf: team_stats over MatchEvent.objects.filter(match=match)
generate_match_report(m) ==
    [goals |-> count(match_events(m), "score_goal"),
     point_1 |-> count(match_events(m), "score_1point"),
     point_2 |-> count(match_events(m), "score_2point"),
     total_score |-> report_total_score(count(match_events(m), "score_goal"),
                                        count(match_events(m), "score_1point"),
                                        count(match_events(m), "score_2point"))]

(* --------------------------- specifications --------------------------- *)
\* The ledger and the lifecycle of match 1 (club A): the callers are the
\* admins of the two clubs, the players come from both clubs, every kind.
LedgerUsers == {"ua", "ub"}
LedgerMatches == {1}
LedgerMinutes == {10}
LedgerDatas == {"d0"}

Next ==
    \/ \E u \in LedgerUsers, m \in LedgerMatches, p \in Players \cup {NoPlayer},
          k \in EVENT_TYPES, mi \in LedgerMinutes, d \in LedgerDatas :
          perform_create(u, m, p, k, mi, d)
    \/ \E u \in LedgerUsers, pk \in 1..MaxEvents : undo(u, pk)
    \/ \E u \in LedgerUsers, pk \in LedgerMatches : start_match(u, pk)
    \/ \E u \in LedgerUsers, pk \in LedgerMatches : complete_match(u, pk)
    \/ \E u \in LedgerUsers, pk \in LedgerMatches, s \in STATUS_CHOICES :
          perform_update(u, pk, s)

Spec == Init /\ [][Next]_vars

\* Both matches created for live entry.
InitLive == Init /\ \A m \in Matches : match[m].entry_mode = "live"

\* Corrections: events that differ in every copied column.
CorrectUsers == {"ua"}
CorrectTypes == {"tackle_won", "kickout_won"}
CorrectMinutes == {10, 20}
CorrectDatas == {"d0", "d1"}

NextCorrect ==
    \/ \E u \in CorrectUsers, m \in LedgerMatches, p \in {"p1", NoPlayer},
          k \in CorrectTypes, mi \in CorrectMinutes, d \in CorrectDatas :
          perform_create(u, m, p, k, mi, d)
    \/ \E u \in CorrectUsers, pk \in 1..MaxEvents : undo(u, pk)
    \/ \E u \in CorrectUsers, pk \in LedgerMatches : start_match(u, pk)

SpecCorrect == InitLive /\ [][NextCorrect]_vars

\* The subscription registry and the broadcaster alone.
FanoutUsers == {"ua", "ub", "np", "anon"}
MESSAGE_TYPES == {"event_created", "match_update"}

NextFanout ==
    \/ \E c \in Conns, u \in FanoutUsers, m \in Matches \cup {MissingMatch} : connect(c, u, m)
    \/ \E c \in Conns : disconnect(c)
    \/ \E m \in Matches, t \in MESSAGE_TYPES : broadcast_to_match(m, t)

SpecFanout == InitLive /\ [][NextFanout]_vars

\* One match with its ledger, its lifecycle and its subscribers.
LiveUsers == {"ua"}
LiveTypes == {"score_goal"}
LivePlayers == {"p1"}

NextLive ==
    \/ \E u \in LiveUsers, m \in LedgerMatches, p \in LivePlayers,
          k \in LiveTypes, mi \in LedgerMinutes, d \in LedgerDatas :
          perform_create(u, m, p, k, mi, d)
    \/ \E u \in LiveUsers, pk \in 1..MaxEvents : undo(u, pk)
    \/ \E u \in LiveUsers, pk \in LedgerMatches : start_match(u, pk)
    \/ \E u \in LiveUsers, pk \in LedgerMatches : complete_match(u, pk)
    \/ \E c \in Conns, u \in LiveUsers, m \in LedgerMatches : connect(c, u, m)
    \/ \E c \in Conns : disconnect(c)
    \/ \E m \in LedgerMatches, t \in MESSAGE_TYPES : broadcast_to_match(m, t)

SpecLive == InitLive /\ [][NextLive]_vars

\* Tenancy: the admin of club A only starts match 1; every other request
\* against match 1 and its events comes from the admin of club B.
TenantOwners == {"ua"}
TenantIntruders == {"ub"}
TenantTypes == {"score_goal", "kickout_won"}

NextTenant ==
    \/ \E u \in TenantOwners \cup TenantIntruders, pk \in LedgerMatches : start_match(u, pk)
    \/ \E u \in TenantIntruders, m \in LedgerMatches, p \in Players \cup {NoPlayer},
          k \in TenantTypes, mi \in LedgerMinutes, d \in LedgerDatas :
          perform_create(u, m, p, k, mi, d)
    \/ \E u \in TenantIntruders, pk \in 1..MaxEvents : undo(u, pk)
    \/ \E u \in TenantIntruders, pk \in LedgerMatches : complete_match(u, pk)
    \/ \E u \in TenantIntruders, pk \in LedgerMatches, s \in STATUS_CHOICES :
          perform_update(u, pk, s)

SpecTenant == InitLive /\ [][NextTenant]_vars

\* Two clubs side by side: each admin runs the own match, and players are
\* transferred between the clubs.
ClubUsers == {"ua", "ub"}
ClubTypes == {"score_goal"}

NextClubs ==
    \/ \E u \in ClubUsers, pk \in Matches : start_match(u, pk)
    \/ \E u \in ClubUsers, m \in Matches, p \in Players,
          k \in ClubTypes, mi \in LedgerMinutes, d \in LedgerDatas :
          perform_create(u, m, p, k, mi, d)
    \/ \E u \in ClubUsers, p \in Players, club \in Clubs : player_perform_update(u, p, club)

SpecClubs == InitLive /\ [][NextClubs]_vars

\* Two undo requests of the admin of club A served at the same time, each
\* statement of the handler a step of its own.
RaceUsers == {"ua"}
RaceTypes == {"tackle_won"}

NextRace ==
    \/ \E u \in RaceUsers, pk \in LedgerMatches : start_match(u, pk)
    \/ \E u \in RaceUsers, m \in LedgerMatches, p \in LivePlayers,
          k \in RaceTypes, mi \in LedgerMinutes, d \in LedgerDatas :
          perform_create(u, m, p, k, mi, d)
    \/ \E r \in Reqs, u \in RaceUsers, pk \in 1..MaxEvents : undo_get_object(r, u, pk)
    \/ \E r \in Reqs : undo_create(r)
    \/ \E r \in Reqs : undo_save(r)

SpecRace == InitLive /\ [][NextRace]_vars

\* Editing: the admin of club A also changes and deletes the events of
\* match 1 and deletes its players.
EditUsers == {"ua"}
EditTypes == {"score_goal"}
EditPatches ==
    {<<"minute", 20>>, <<"event_type", "score_goal">>, <<"corrected_event", NoEvent>>}

NextEdit ==
    \/ \E u \in EditUsers, pk \in LedgerMatches : start_match(u, pk)
    \/ \E u \in EditUsers, m \in LedgerMatches, p \in LivePlayers,
          k \in EditTypes, mi \in LedgerMinutes, d \in LedgerDatas :
          perform_create(u, m, p, k, mi, d)
    \/ \E u \in EditUsers, pk \in 1..MaxEvents : undo(u, pk)
    \/ \E u \in EditUsers, pk \in 1..MaxEvents, patch \in EditPatches :
          partial_update(u, pk, patch[1], patch[2])
    \/ \E u \in EditUsers, pk \in 1..MaxEvents : destroy(u, pk)
    \/ \E u \in EditUsers, p \in LivePlayers : player_destroy(u, p)

SpecEdit == InitLive /\ [][NextEdit]_vars

\* Validation: the admin of club A sends every kind with and without a
\* player, for a match that is scheduled, in progress or completed.
ValidateUsers == {"ua"}

NextValidate ==
    \/ \E u \in ValidateUsers, m \in LedgerMatches, p \in LivePlayers \cup {NoPlayer},
          k \in EVENT_TYPES, mi \in LedgerMinutes, d \in LedgerDatas :
          perform_create(u, m, p, k, mi, d)
    \/ \E u \in ValidateUsers, pk \in LedgerMatches : start_match(u, pk)
    \/ \E u \in ValidateUsers, pk \in LedgerMatches : complete_match(u, pk)

SpecValidate == InitLive /\ [][NextValidate]_vars

\* Fan-out with a subscriber that may stall: the consumer of a connection in
\* Healthy keeps handling its channel; the consumer of a connection in
\* Stalling may stop at any time, or disconnect.
Healthy == {"c1"}
Stalling == {"c2"}

NextStall ==
    \/ \E c \in Conns, u \in LiveUsers, m \in LedgerMatches : connect(c, u, m)
    \/ \E c \in Stalling : disconnect(c)
    \/ \E m \in LedgerMatches, t \in MESSAGE_TYPES : publish(m, t)
    \/ \E c \in Conns : handler(c)

SpecStall == InitLive /\ [][NextStall]_vars /\ \A c \in Healthy : WF_vars(handler(c))

\* The viewer of club A alone: every request is made by a user whose role
\* is viewer.
ViewerUsers == {"va"}

NextViewer ==
    \/ \E u \in ViewerUsers, m \in LedgerMatches, p \in LivePlayers,
          k \in TenantTypes, mi \in LedgerMinutes, d \in LedgerDatas :
          perform_create(u, m, p, k, mi, d)
    \/ \E u \in ViewerUsers, pk \in LedgerMatches : start_match(u, pk)
    \/ \E u \in ViewerUsers, pk \in LedgerMatches : complete_match(u, pk)
    \/ \E u \in ViewerUsers, pk \in LedgerMatches, s \in STATUS_CHOICES :
          perform_update(u, pk, s)
    \/ \E u \in ViewerUsers, p \in Players : player_destroy(u, p)

SpecViewer == InitLive /\ [][NextViewer]_vars

(* ------------------------------- claims ------------------------------- *)
\* the events a correction has not superseded
uncorrected(S) == {i \in S : events[i].corrected_event = NoEvent}

\* the rows undo inserted: their link points back to an older row
created_by_undo(i) == events[i].corrected_event # NoEvent /\ events[i].corrected_event < i

\* one entry per correction chain: the rows a create request inserted
chain_heads(S) == {i \in S : ~created_by_undo(i)}

\* C1: statistics count no event whose correction link is set; every
\* correction chain contributes exactly once, whatever its length (the
\* original and its correction are not both counted).
C1_CorrectedEventsExcluded ==
    \A k \in EVENT_TYPES :
        /\ count(player_events("p1", 0), k) <= count(uncorrected(player_events("p1", 0)), k)
        /\ count(player_events("p1", 0), k) = count(chain_heads(player_events("p1", 0)), k)
        /\ count(home_events(1), k) = count(chain_heads(home_events(1)), k)

\* C2: undo on an event whose correction link is already set answers 400
\* "already undone" and leaves the ledger as it was: no further row, the
\* one link from the event unchanged.
C2_SecondUndoRejected ==
    [][\A pk \in DOMAIN events :
          (last'.op = "undo" /\ last'.ref = pk /\ events[pk].corrected_event # NoEvent)
              => (/\ last'.code = 400
                  /\ last'.error = "already_undone"
                  /\ events' = events)]_vars

C2_Witness ==
    /\ last.op = "undo" /\ last.code = 400 /\ last.error = "already_undone" /\ last.ref = 1
    /\ Len(events) = 2
    /\ events[1].corrected_event = 2
    /\ Cardinality({i \in DOMAIN events : created_by_undo(i)}) = 1

\* C3: a successful undo inserts exactly one row with the match, kind,
\* player, minute and payload of its target, points the target's link at the
\* new row, answers with the new row and changes no other row.
C3_UndoCopiesTarget ==
    [][(last'.op = "undo" /\ last'.code = 200) =>
          LET t == last'.ref
              n == Len(events) + 1
          IN  /\ t \in DOMAIN events
              /\ Len(events') = n
              /\ last'.id = n
              /\ events'[n].match = events[t].match
              /\ events'[n].event_type = events[t].event_type
              /\ events'[n].player = events[t].player
              /\ events'[n].minute = events[t].minute
              /\ events'[n].data = events[t].data
              /\ events'[t] = [events[t] EXCEPT !.corrected_event = n]
              /\ \A i \in DOMAIN events \ {t} : events'[i] = events[i]]_vars

C3_Witness ==
    /\ last.op = "undo" /\ last.code = 200 /\ last.ref = 2 /\ last.id = 3
    /\ events[1].minute = 10 /\ events[1].data = "d0" /\ events[1].player = "p1"
    /\ events[2].minute = 20 /\ events[2].data = "d1" /\ events[2].player = NoPlayer
    /\ events[3].minute = 20 /\ events[3].data = "d1" /\ events[3].player = NoPlayer
    /\ events[2].corrected_event = 3
    /\ events[1].corrected_event = NoEvent

\* the lifecycle's legal transitions
LegalTransitions ==
    {<<"scheduled", "in_progress">>, <<"scheduled", "postponed">>,
     <<"scheduled", "cancelled">>, <<"in_progress", "completed">>,
     <<"postponed", "scheduled">>}

\* C4: a transition request succeeds only for a legal pair (phase, requested
\* phase); any other request fails and leaves the phase as it was.
C4_OnlyLegalTransitions ==
    [][\A m \in Matches :
          /\ (match'[m].status # match[m].status
                => <<match[m].status, match'[m].status>> \in LegalTransitions)
          /\ (last'.op \in {"start_match", "complete_match"} /\ last'.ref = m
              /\ last'.code = 200
                => <<match[m].status, match'[m].status>> \in LegalTransitions)]_vars

\* C5: a connection is in a match's group only if its user has a profile of
\* the club that owns the match; a handshake of a user of another club is
\* closed with 4003, joins no group and is never sent a message.
C5_SubscribeOnlyOwnTenant ==
    /\ \A m \in Matches : \A c \in group[m] :
          /\ conn[c].match = m
          /\ has_userprofile(conn[c].user)
          /\ UserClub(conn[c].user) = match[m].club
    /\ \A c \in Conns :
          (/\ conn[c].state # "connecting"
           /\ has_userprofile(conn[c].user)
           /\ conn[c].match \in Matches
           /\ UserClub(conn[c].user) # match[conn[c].match].club)
              => (/\ conn[c].state = "closed"
                  /\ conn[c].code = 4003
                  /\ \A m \in Matches : c \notin group[m]
                  /\ inbox[c] = << >>)
    /\ \A c \in Conns : \A i \in DOMAIN inbox[c] :
          /\ has_userprofile(conn[c].user)
          /\ UserClub(conn[c].user) = match[inbox[c][i].match].club

C5_Witness ==
    /\ conn["c1"].user = "ub" /\ conn["c1"].match = 1 /\ conn["c1"].code = 4003
    /\ conn["c2"].user = "ua" /\ conn["c2"].match = 1 /\ conn["c2"].state = "subscribed"
    /\ Len(inbox["c2"]) = 1
    /\ inbox["c1"] = << >>

\* the points one event is worth
points(k) ==
    CASE k = "score_goal" -> 3
      [] k = "score_1point" -> 1
      [] k = "score_2point" -> 2
      [] OTHER -> 0

RECURSIVE sum_points(_)
sum_points(S) ==
    IF S = {} THEN 0
    ELSE LET i == CHOOSE x \in S : TRUE
         IN  points(events[i].event_type) + sum_points(S \ {i})

\* a ledger of exactly a goal, a 1-point and a 2-point score of player p1
three_scores ==
    /\ Len(events) = 3
    /\ \A i \in DOMAIN events : events[i].match = 1 /\ events[i].player = "p1"
    /\ events[1].event_type = "score_goal"
    /\ events[2].event_type = "score_1point"
    /\ events[3].event_type = "score_2point"

\* C6: the match summary's total is 3 per goal, 1 per 1-point score and 2 per
\* 2-point score over the counted events; a goal, a 1-point and a 2-point
\* score of one player in an otherwise empty ledger total 6.
C6_TeamScore ==
    /\ match_summary("ua", 1).total = sum_points(home_events(1))
    /\ three_scores => match_summary("ua", 1).total = 6

C6_Witness == three_scores /\ match_summary("ua", 1).total = 6

\* C7: the cached score columns of a match equal the scores recomputed from
\* its ledger.
C7_CacheMatchesLedger ==
    \A m \in LedgerMatches :
        /\ match[m].club_goals = match_summary("ua", m).goals
        /\ match[m].club_1point = match_summary("ua", m).point_1
        /\ match[m].club_2point = match_summary("ua", m).point_2
        /\ total_club_score(m) = match_summary("ua", m).total

\* C8: every committed create, undo and phase change of a match sends
\* exactly one message to every connection that is in the match's group.
C8_MutationsArePublished ==
    [][\A m \in Matches :
          (\/ match'[m].status # match[m].status
           \/ (Len(events') > Len(events) /\ events'[Len(events')].match = m))
              => \A c \in group[m] : Len(inbox'[c]) = Len(inbox[c]) + 1]_vars

\* the phases in which the ledger may take a new event
permits_events(m) ==
    \/ match[m].status = "in_progress"
    \/ (match[m].status = "completed" /\ match[m].entry_mode = "post_match")

C10_ForeignPlayerRejected ==
    [][(last'.op = "create" /\ last'.player # NoPlayer) =>
          LET m == last'.ref
              p == last'.player
          IN  IF PlayerClub(p) # match[m].club
              THEN /\ events' = events
                   /\ last'.code = 400
                   /\ last'.error = "player_club"
              ELSE match[m].status = "in_progress"
                      => (/\ last'.code = 201
                          /\ Len(events') = Len(events) + 1
                          /\ events'[Len(events')].player = p
                          /\ events'[Len(events')].match = m)]_vars

C10_Witness ==
    /\ last.op = "create" /\ last.code = 400 /\ last.error = "player_club"
    /\ last.player = "p2"
    /\ match[1].status = "in_progress"
    /\ Len(events) = 1
    /\ events[1].player = "p1"
    /\ \A i \in DOMAIN events : PlayerClub(events[i].player) = match[events[i].match].club

\* a step that a create, undo, start or complete request of user u against
\* match m (or one of its events) can take
request_on(u, m) ==
    \/ \E p \in Players \cup {NoPlayer}, k \in TenantTypes,
          mi \in LedgerMinutes, d \in LedgerDatas : perform_create(u, m, p, k, mi, d)
    \/ \E pk \in match_events(m) : undo(u, pk)
    \/ start_match(u, m)
    \/ complete_match(u, m)

\* C11: a create, undo or phase request of a user of one club against a
\* match (or an event of a match) of another club does not succeed and
\* changes neither the ledger nor the match.
C11_CrossTenantWriteRejected ==
    [][\A u \in TenantIntruders, m \in LedgerMatches :
          (UserClub(u) # match[m].club /\ request_on(u, m))
              => (/\ events' = events
                  /\ match' = match
                  /\ last'.code \notin {200, 201})]_vars

\* the club that owns event i: the club of its match
owner(i) == match[events[i].match].club

\* C12: whatever a user reads (the event, match and player lists, the
\* summary of a match, the statistics of a player in a match) holds only
\* matches, players and events of the user's own club.
C12_ReadsStayInTenant ==
    \A u \in ClubUsers :
        /\ \A i \in get_queryset(u) : owner(i) = UserClub(u)
        /\ \A m \in match_get_queryset(u) : match[m].club = UserClub(u)
        /\ \A p \in player_get_queryset(u) : players[p].club = UserClub(u)
        /\ \A m \in Matches :
              match_summary(u, m).code = 200
                  => \A i \in home_events(m) : owner(i) = UserClub(u)
        /\ \A p \in Players, m \in Matches :
              player_summary(u, p, m).code = 200
                  => \A i \in player_events(p, m) : owner(i) = UserClub(u)

\* C13: the season statistics of a club (the season report, and the
\* statistics of a player over all matches that a user of the club gets)
\* count no event of a match of another club, also after a transfer.
C13_SeasonStatsStayInTenant ==
    /\ \A club \in Clubs :
          \A i \in season_events(club) \cup season_player_events(club) : owner(i) = club
    /\ \A u \in ClubUsers, p \in Players :
          player_summary(u, p, 0).code = 200
              => \A i \in player_events(p, 0) : owner(i) = UserClub(u)

\* the rows undo inserted for event e
successors(e) == {i \in EventIds : i > e /\ events[i].corrected_event = e}

\* C14: however undo requests on one event interleave, at most one
\* correcting event is ever created for it.
C14_AtMostOneSuccessor ==
    \A e \in EventIds : Cardinality(successors(e)) <= 1

\* C15: a correction is all or nothing: in every state, a row that undo
\* inserted for an event is the row that event's link points to.
C15_CorrectionAtomic ==
    \A i \in EventIds :
        created_by_undo(i) => events[events[i].corrected_event].corrected_event = i

\* C16: no step changes the kind, player, minute or payload of an event
\* that stays in the ledger, and its correction link changes only from
\* null to a successor.
C16_EventsImmutable ==
    [][\A i \in EventIds \cap (DOMAIN events' \ deleted') :
          /\ events'[i].event_type = events[i].event_type
          /\ events'[i].player = events[i].player
          /\ events'[i].minute = events[i].minute
          /\ events'[i].data = events[i].data
          /\ (events'[i].corrected_event # events[i].corrected_event
                => (/\ events[i].corrected_event = NoEvent
                    /\ events'[i].corrected_event # NoEvent))]_vars

\* C17: no step removes an event from the ledger, and no step deletes a
\* player that an event names.
C17_NothingDeleted ==
    [][/\ EventIds \subseteq (DOMAIN events' \ deleted')
       /\ \A p \in DOMAIN players :
             (\E i \in EventIds : events[i].player = p) => p \in DOMAIN players']_vars

\* C18: every step that inserts an event, by create or by undo, is taken
\* while the event's match is in_progress (or completed with entry mode
\* post_match).
C18_EventsCreatedInPermittingPhase ==
    [][Len(events') > Len(events)
          => permits_events(events'[Len(events')].match)]_vars

\* C19: the numbers the events of one match are given when they are
\* committed (the primary key is the only number MatchEvent gets then) are
\* strictly increasing and leave no gap within the match.
C19_SequenceGapFree ==
    \A m \in Matches : \A i \in match_events(m), j \in match_events(m) :
        \A k \in i..j : k \in match_events(m)

\* the score and duel kinds among EVENT_TYPES
score_and_duel_kinds == {"score_goal", "score_1point", "score_2point", "tackle_won"}

\* C20: a create request that names no player is refused with 400 "player
\* is required" and inserts no row when its kind is a score or duel kind;
\* for a kick-out, and a match in progress, it inserts the event.
C20_PlayerRequired ==
    [][(last'.op = "create" /\ last'.player = NoPlayer) =>
          /\ last'.code = 201 =>
                (/\ Len(events') = Len(events) + 1
                 /\ events'[Len(events')].player = NoPlayer
                 /\ events'[Len(events')].event_type \notin score_and_duel_kinds)
          /\ last'.code # 201 => events' = events
          /\ \A u \in ValidateUsers, m \in LedgerMatches, mi \in LedgerMinutes, d \in LedgerDatas :
                /\ \A k \in score_and_duel_kinds :
                      perform_create(u, m, NoPlayer, k, mi, d)
                          => (/\ last'.code = 400
                              /\ last'.error = "player_required"
                              /\ events' = events)
                /\ (perform_create(u, m, NoPlayer, "kickout_won", mi, d)
                     /\ match[m].status = "in_progress")
                          => (/\ last'.code = 201
                              /\ events'[Len(events')].event_type = "kickout_won")]_vars

C20_Witness ==
    /\ last.op = "create" /\ last.code = 400 /\ last.error = "player_required"
    /\ last.player = NoPlayer
    /\ match[1].status = "in_progress"
    /\ Len(events) = 1
    /\ events[1].event_type = "kickout_won" /\ events[1].player = NoPlayer

C22_DisconnectOnlyLeavesGroup ==
    [][\A c \in Conns :
          /\ (conn[c].state = "subscribed" /\ conn'[c].state = "closed")
                => (/\ \A m \in Matches : c \notin group'[m]
                    /\ UNCHANGED <<events, match, players, deleted>>
                    /\ match_summary("ua", 1)' = match_summary("ua", 1))
          /\ conn[c].state = "closed"
                => (/\ inbox'[c] = inbox[c]
                    /\ \A m \in Matches : c \notin group'[m])]_vars

C22_Witness ==
    /\ conn["c1"].state = "closed" /\ conn["c1"].code = 1000 /\ conn["c1"].match = 1
    /\ conn["c2"].state = "subscribed" /\ conn["c2"].match = 1
    /\ Len(inbox["c1"]) = 1
    /\ Len(inbox["c2"]) = 2
    /\ group[1] = {"c2"}
    /\ Len(events) = 1

\* C23: the score of a match-state snapshot is the score the statistics
\* endpoint computes from the match's ledger at that moment.
C23_SnapshotScoreIsCurrent ==
    \A m \in LedgerMatches :
        /\ get_match_state(m).score.goals = match_summary("ua", m).goals
        /\ get_match_state(m).score.point_1 = match_summary("ua", m).point_1
        /\ get_match_state(m).score.point_2 = match_summary("ua", m).point_2
        /\ get_match_state(m).score.total = match_summary("ua", m).total

\* C24: for the same goal, 1-point and 2-point counts, the match summary,
\* the match report, the season report and Match.total_club_score give the
\* same total.
C24_OneTotalScore ==
    \A m \in LedgerMatches :
        LET s == match_summary("ua", m)
            r == generate_match_report(m)
        IN  /\ (s.goals = r.goals /\ s.point_1 = r.point_1 /\ s.point_2 = r.point_2)
                  => (/\ s.total = r.total_score
                      /\ s.total = season_total_score(s.goals, s.point_1, s.point_2))
            /\ (/\ s.goals = match[m].club_goals
                /\ s.point_1 = match[m].club_1point
                /\ s.point_2 = match[m].club_2point)
                  => s.total = total_club_score(m)

C26_StalledSubscriberBlocksNobody ==
    \A c \in Healthy : \A n \in 1..MaxInbox :
        (Len(inbox[c]) + Len(channel[c]) >= n) ~> (Len(inbox[c]) >= n)

C26_Witness ==
    /\ group[1] = {"c1", "c2"}
    /\ Len(channel["c2"]) = 2 /\ inbox["c2"] = << >>
    /\ Len(inbox["c1"]) = 2 /\ channel["c1"] = << >>

\* a step that a request of user u to create an event, to change or move
\* on a match, or to delete a player can take
viewer_request(u) ==
    \/ \E m \in LedgerMatches, p \in LivePlayers, k \in TenantTypes,
          mi \in LedgerMinutes, d \in LedgerDatas : perform_create(u, m, p, k, mi, d)
    \/ \E m \in LedgerMatches : start_match(u, m) \/ complete_match(u, m)
    \/ \E m \in LedgerMatches, s \in STATUS_CHOICES : perform_update(u, m, s)
    \/ \E p \in Players : player_destroy(u, p)

\* C27: no request of a user whose role is viewer changes the events, the
\* matches or the players.
C27_ViewerChangesNothing ==
    [][\A u \in ViewerUsers :
          (UserRole(u) = "viewer" /\ viewer_request(u))
              => UNCHANGED <<events, match, players, deleted>>]_vars

\* C28: the event that a successful correction returns is active, its own
\* corrected_event link is empty, so it can be corrected in its turn.
C28_ReturnedEventIsActive ==
    [][(last'.op = "undo" /\ last'.code = 200 /\ last' # last)
          => events'[last'.id].corrected_event = NoEvent]_vars

\* C29: every event of match 1 of a counted kind contributes to the totals of
\* the match summary, whoever its player is and also when it has none.
C29_StatsFromLedgerAlone ==
    LET s == match_summary("ua", 1)
    IN  s.code = 200 =>
            /\ s.goals = count(match_events(1), "score_goal")
            /\ s.point_1 = count(match_events(1), "score_1point")
            /\ s.point_2 = count(match_events(1), "score_2point")
            /\ s.kickouts_won = count(match_events(1), "kickout_won")

\* the last n entries of a sequence
latest(s, n) == SubSeq(s, IF Len(s) < n THEN 1 ELSE Len(s) - n + 1, Len(s))

\* C30: the recent events of a snapshot of match 1 are the latest events of
\* the match, also when the match has more events than the snapshot holds.
C30_SnapshotHoldsLatestEvents ==
    get_match_state(1).recent_events = latest(ordering(match_events(1)), RecentLimit)

====
